---- MODULE Spec2Model ----
(***************************************************************************)
(* A model of app.py of piano-midi-transcription: the request handlers     *)
(* transcribe_and_show_score / transcribe_file, the lazily built global    *)
(* transcriptor (get_transcriptor) and the reflective device mover         *)
(* (_move_object_to_device).  External libraries (load_audio,              *)
(* PianoTranscription, music21, the file system) are modelled by what the  *)
(* code relies on: each call either raises or delivers its result.         *)
(***************************************************************************)
EXTENDS Naturals, Sequences, FiniteSets, TLC

VARIABLES
    _TRANSCRIPTOR,  \* the module global of app.py: NoObj (None) or an object id
    heap,           \* the PianoTranscription objects built so far, by id
    mps_available,  \* torch.backends.mps.is_available() of this machine
    fs,             \* the files on disk: path -> content
    dirs,           \* the directories os.makedirs has created
    req,            \* per worker thread: the request it runs and its locals
    nreq,           \* requests started so far
    nmigrate,       \* device migrations attempted so far
    mv              \* the _move_object_to_device call under study (SpecMove)

vars == <<_TRANSCRIPTOR, heap, mps_available, fs, dirs, req, nreq, nmigrate, mv>>

(***************************************************************************)
(* Bounds of the model.                                                    *)
(***************************************************************************)
MaxRequests == 2   \* requests started in one run of the server
MaxPathLen == 4    \* characters of an uploaded file's path (SpecPath)
MaxAttrs == 2      \* attributes of the object handed to the mover (SpecMove)
MaxElems == 2      \* elements of a container attribute (SpecMove)

Workers == {"w1", "w2"}

(***************************************************************************)
(* Python values.                                                          *)
(***************************************************************************)
\* None where a path is expected; no path holds this token.
None == <<"None">>
\* None where a transcriptor is expected: _TRANSCRIPTOR = None.
NoObj == 0

\* `audio_path is None` in place of `not audio_path`.
Falsy_OnlyNone(audio_path) == audio_path = None
\* `not audio_path`: None and the empty string are falsy.
Falsy(audio_path) == audio_path = None \/ audio_path = <<>>

(***************************************************************************)
(* os.path on POSIX, over strings as sequences of characters.              *)
(***************************************************************************)
\* str.rfind, 1-based; 0 when c does not occur.
RFind(p, c) ==
    LET hits == {i \in 1..Len(p) : p[i] = c}
    IN  IF hits = {} THEN 0 ELSE CHOOSE i \in hits : \A j \in hits : j <= i

\* os.path.basename: what follows the last "/".
Basename(p) == SubSeq(p, RFind(p, "/") + 1, Len(p))

\* os.path.splitext: split at the last "." unless only dots precede it in
\* the last component.
Splitext(p) ==
    LET sepIndex == RFind(p, "/")
        dotIndex == RFind(p, ".")
    IN  IF dotIndex > sepIndex
           /\ \E k \in (sepIndex + 1)..(dotIndex - 1) : p[k] # "."
        THEN <<SubSeq(p, 1, dotIndex - 1), SubSeq(p, dotIndex, Len(p))>>
        ELSE <<p, <<>>>>

\* os.path.join of two parts.
Join(a, b) ==
    IF b # <<>> /\ b[1] = "/" THEN b
    ELSE IF a = <<>> \/ a[Len(a)] = "/" THEN a \o b
    ELSE a \o <<"/">> \o b

\* os.path.basename(audio_path), the extension kept.
BaseOf_KeepExt(audio_path) == Basename(audio_path)
\* os.path.splitext(os.path.basename(audio_path))[0]
BaseOf(audio_path) == Splitext(Basename(audio_path))[1]

\* os.path.dirname(os.path.abspath(__file__)), and the tests/ folder in it.
RootDir == <<"/", "repo">>
TestsDir == Join(RootDir, <<"tests">>)

\* os.path.join(tests_dir, "test_out.mid"), the fixed name of test_infer.py.
MidiPathOf_Fixed(audio_path) == Join(TestsDir, <<"test_out", ".", "mid">>)
\* os.path.join(tests_dir, f"{base}.mid")
MidiPathOf(audio_path) == Join(TestsDir, BaseOf(audio_path) \o <<".", "mid">>)

\* os.path.join(tests_dir, f"{base}.musicxml")
XmlPathOf(audio_path) == Join(TestsDir, BaseOf(audio_path) \o <<".", "musicxml">>)

(***************************************************************************)
(* Objects as _move_object_to_device sees them.  An attribute name is a    *)
(* sequence of strings: <<"buf">> is "buf", <<"buf", "[0]">> is "buf[0]"   *)
(* and <<"tab", ".k0">> is "tab.k0".  An object keeps its __dict__ in      *)
(* insertion order (order) with the value of each attribute (val).         *)
(***************************************************************************)
Tensor(d) == [kind |-> "tensor", dev |-> d, elems |-> <<>>]
Module(d) == [kind |-> "module", dev |-> d, elems |-> <<>>]
DeviceVal(d) == [kind |-> "device", dev |-> d, elems |-> <<>>]
Other == [kind |-> "other", dev |-> "none", elems |-> <<>>]
ListOf(es) == [kind |-> "list", dev |-> "none", elems |-> es]
DictOf(es) == [kind |-> "dict", dev |-> "none", elems |-> es]

\* name.startswith("__")
Dunder(name) == name[1] \in {"__cache"}

\* f"{name}[{i}]" for enumerate(attr), f"{name}.{k}" for attr.items()
IndexTags == <<"[0]", "[1]", "[2]", "[3]">>
KeyTags == <<".k0", ".k1", ".k2", ".k3">>
ElemName(name, kind, i) ==
    name \o <<IF kind = "dict" THEN KeyTags[i] ELSE IndexTags[i]>>

\* setattr(obj, name, value): replaces the attribute, or adds it.
SetAttr(obj, name, value) ==
    [order |-> IF name \in DOMAIN obj.val THEN obj.order
                                           ELSE Append(obj.order, name),
     val |-> [n \in DOMAIN obj.val \cup {name} |->
                 IF n = name THEN value ELSE obj.val[n]]]

\* The value try_move is handed: attribute attr itself (i = 0) or the i-th
\* element of the container it holds.
ValueAt(obj, attr, i) ==
    IF i = 0 THEN obj.val[attr] ELSE obj.val[attr].elems[i]

\* x.to(device) on a module moves it in place, wherever it is held.
ModuleTo(obj, attr, i, device) ==
    [obj EXCEPT !.val[attr] =
        IF i = 0 THEN [@ EXCEPT !.dev = device]
                 ELSE [@ EXCEPT !.elems[i].dev = device]]

NoDiag == [modules |-> 0, tensors |-> 0, errors |-> <<>>]

\* try_move(x, name) of _move_object_to_device, x being ValueAt(obj, attr, i).
\* env.toFails: the names whose x.to(device) raises; env.setFails: the names
\* whose setattr raises.
try_move(st, attr, i, name, env) ==
    LET x == ValueAt(st.obj, attr, i)
    IN  IF x.kind = "module" THEN
            IF name \in env.toFails
            THEN [st EXCEPT !.moved.errors = Append(@, name)]
            ELSE [obj |-> ModuleTo(st.obj, attr, i, env.device),
                  moved |-> [st.moved EXCEPT !.modules = @ + 1]]
        ELSE IF x.kind = "tensor" THEN
            \* x.to(device) and setattr share the inner try, whose except
            \* passes: the tensor is counted whether or not it was moved.
            [obj |-> IF name \in env.toFails \cup env.setFails THEN st.obj
                     ELSE SetAttr(st.obj, name, Tensor(env.device)),
             moved |-> [st.moved EXCEPT !.tensors = @ + 1]]
        ELSE st

\* for i, v in enumerate(attr) / for k, v in attr.items(): try_move each.
RECURSIVE WalkElems(_, _, _, _, _)
WalkElems(st, attr, kind, i, env) ==
    IF i > Len(st.obj.val[attr].elems) THEN st
    ELSE WalkElems(try_move(st, attr, i, ElemName(attr, kind, i), env),
                   attr, kind, i + 1, env)

\* The loop over dir(obj): names is what is left of dir(obj).
RECURSIVE WalkDir(_, _, _)
WalkDir(st, names, env) ==
    IF names = <<>> THEN st
    ELSE LET name == Head(names)
             attr == st.obj.val[name]
             s1 == try_move(st, name, 0, name, env)
             s2 == IF attr.kind \in {"dict", "list"}
                   THEN WalkElems(s1, name, attr.kind, 1, env)
                   ELSE s1
         IN  IF Dunder(name) THEN WalkDir(st, Tail(names), env)
                             ELSE WalkDir(s2, Tail(names), env)

\* The loop over obj.__dict__.items(): keys is what is left of the items.
RECURSIVE WalkDict(_, _, _)
WalkDict(st, keys, env) ==
    IF keys = <<>> THEN st
    ELSE WalkDict(try_move(st, Head(keys), 0, Head(keys), env), Tail(keys), env)

\* _move_object_to_device(obj, device): the object afterwards and `moved`.
MoveObjectToDevice(obj, env) ==
    LET s1 == WalkDir([obj |-> obj, moved |-> NoDiag], obj.order, env)
    IN  WalkDict(s1, s1.obj.order, env)

(***************************************************************************)
(* get_transcriptor: the device migration of a freshly built object.       *)
(***************************************************************************)
\* PianoTranscription(device="cpu", checkpoint_path=None): the model and the
\* device it was asked for, in dir() order.
NewTranscriptor ==
    [order |-> <<<<"device">>, <<"model">>>>,
     val |-> [n \in {<<"device">>, <<"model">>} |->
                 IF n = <<"model">> THEN Module("cpu") ELSE DeviceVal("cpu")]]

\* torch.device("mps" if torch.backends.mps.is_available() else "cpu")
TargetDevice(available) == IF available THEN "mps" ELSE "cpu"

\* What the calls of the migration may do: c.walkerRaises,
\* _move_object_to_device raises; c.toFails, the names whose .to raises in
\* it; c.modelToRaises, tr.model.to(device) raises; c.setattrRaises,
\* setattr(tr, "device", device) raises; c.paramsRaises,
\* next(tr.model.parameters()) raises.
MigrationChoices ==
    [walkerRaises : BOOLEAN, toFails : {{}, {<<"model">>}},
     modelToRaises : BOOLEAN, setattrRaises : BOOLEAN, paramsRaises : BOOLEAN]

\* The try block of get_transcriptor: the object afterwards and the branch
\* taken ("moved", "fallback" or "error").
MigrateTry(tr, device, c) ==
    IF c.walkerRaises THEN [obj |-> tr, outcome |-> "error"]
    ELSE
    LET diag == MoveObjectToDevice(tr, [device |-> device,
                                        toFails |-> c.toFails, setFails |-> {}])
        o1 == diag.obj
        o2 == IF <<"model">> \in DOMAIN o1.val /\ ~c.modelToRaises
              THEN ModuleTo(o1, <<"model">>, 0, device) ELSE o1
        o3 == IF c.setattrRaises THEN o2
              ELSE SetAttr(o2, <<"device">>, DeviceVal(device))
        param_device == IF c.paramsRaises \/ <<"model">> \notin DOMAIN o3.val
                        THEN "none" ELSE o3.val[<<"model">>].dev
    IN  [obj |-> o3,
         outcome |-> IF param_device = device THEN "moved" ELSE "fallback"]

(***************************************************************************)
(* The values the handlers pass around.                                    *)
(***************************************************************************)
NoText == [kind |-> "none", of |-> None]
\* load_audio(audio_path, ...): the samples of that file.
Audio(audio_path) == [kind |-> "audio", of |-> audio_path]
\* The MIDI file transcriptor.transcribe writes for these samples.
MidiFile(audio) == [kind |-> "midi", of |-> audio.of, complete |-> TRUE]
\* midi_to_musicxml_str: the MusicXML text of a MIDI file.
MusicXml(midi) == [kind |-> "musicxml", of |-> midi.of]
\* The file that holds a text, completely or cut short by a failed write.
TextFile(text, complete) ==
    [kind |-> text.kind, of |-> text.of, complete |-> complete]
\* json.dumps(musicxml_text): the text as a JS string literal.
JsonDumps(text) == [kind |-> "json", of |-> text]
\* The two HTML fragments transcribe_and_show_score builds.
ScoreHtml(xml_text) ==
    [kind |-> "score", xml_js |-> JsonDumps(xml_text), msg |-> "Score Info"]
FailedHtml(e) ==
    [kind |-> "failed", xml_js |-> JsonDumps(NoText),
     msg |-> "Score conversion failed"]
NoHtml == [kind |-> "none", xml_js |-> JsonDumps(NoText), msg |-> ""]

\* open(path, "w") followed by f.write: the file system afterwards.
WriteFile(files, path, content) ==
    [q \in DOMAIN files \cup {path} |-> IF q = path THEN content ELSE files[q]]

NoRet == [kind |-> "none", err |-> "", midi_path |-> None, html |-> NoHtml,
          musicxml_path |-> None]

\* A worker thread with no request, and the locals of a request just begun.
IdleReq ==
    [pc |-> "idle", fn |-> "none", audio_path |-> None, audio |-> NoText,
     out_path |-> None, midi_path |-> None, tr |-> NoObj, built |-> NoObj, transcriptor |-> NoObj,
     outcome |-> "none", xml_text |-> NoText, musicxml_path |-> None,
     wrote |-> {}, failed_at |-> "none", ret |-> NoRet]

\* An exception of step `step` leaves the handler uncaught.
Raised(r, step, err) ==
    [r EXCEPT !.pc = "done", !.failed_at = step,
              !.ret = [NoRet EXCEPT !.kind = "raised", !.err = err]]

\* The except branch without its `musicxml_path = None`.
ScoreFailed_KeepsPath(r, step) ==
    [r EXCEPT !.pc = "done", !.failed_at = step,
              !.ret = [kind |-> "returned", err |-> "", midi_path |-> r.midi_path,
                       html |-> FailedHtml(step),
                       musicxml_path |-> r.musicxml_path]]

\* The except branch of transcribe_and_show_score: the failure of `step`
\* becomes the failure fragment, with no MusicXML path.
ScoreFailed(r, step) ==
    [r EXCEPT !.pc = "done", !.failed_at = step, !.musicxml_path = None,
              !.ret = [kind |-> "returned", err |-> "", midi_path |-> r.midi_path,
                       html |-> FailedHtml(step), musicxml_path |-> None]]

(***************************************************************************)
(* The request handlers, one action per step of a worker thread.  A step   *)
(* ends where the thread next reads or writes what other threads share     *)
(* (_TRANSCRIPTOR, the files) or calls a library that may raise.           *)
(***************************************************************************)
\* The requests of the concurrent specification, as <<handler, audio_path>>:
\* no file, an empty path, two uploads with the same base name ("a.b" and
\* "b/a"), and one with another base name, a leading dot.
AudioInputs ==
    {<<"score", None>>, <<"score", <<>>>>,
     <<"score", <<"a", ".", "b">>>>, <<"score", <<"b", "/", "a">>>>,
     <<"file", None>>, <<"file", <<>>>>, <<"file", <<".", "a">>>>}

\* Every path of at most MaxPathLen characters (SpecPath).
PathChars == {"/", ".", "a", "b"}
BoundedPaths == UNION {[1..n -> PathChars] : n \in 0..MaxPathLen}

\* The handlers bound to a request: transcribe_and_show_score ("score", the
\* button of create_demo) and transcribe_file called on its own ("file").
Handlers == {"score", "file"}

\* A request arrives: the `if not audio_path` guards of both handlers.
Call(w, fn, audio_path) ==
    /\ req[w].pc \in {"idle", "done"}
    /\ nreq < MaxRequests
    /\ nreq' = nreq + 1
    /\ LET r == [IdleReq EXCEPT !.fn = fn, !.audio_path = audio_path]
       IN  req' = [req EXCEPT ![w] =
               IF Falsy(audio_path) THEN Raised(r, "guard", "No file provided")
               ELSE [r EXCEPT !.pc = "load"]]
    /\ UNCHANGED <<_TRANSCRIPTOR, heap, mps_available, fs, dirs, nmigrate, mv>>

\* transcribe_file up to out_path: load_audio(audio_path, ...), base,
\* tests_dir, os.makedirs(tests_dir, exist_ok=True).  Either call may raise.
PrepareSteps == {"load_audio", "makedirs", "ok"}
Prepare(w) ==
    /\ req[w].pc = "load"
    /\ \E step \in PrepareSteps :
        /\ req' = [req EXCEPT ![w] =
              IF step = "ok"
              THEN [@ EXCEPT !.pc = "get",
                             !.audio = Audio(req[w].audio_path),
                             !.out_path = MidiPathOf(req[w].audio_path)]
              ELSE Raised(IF step = "makedirs"
                          THEN [@ EXCEPT !.audio = Audio(req[w].audio_path)]
                          ELSE @, step, step)]
        /\ dirs' = IF step = "ok" THEN dirs \cup {TestsDir} ELSE dirs
    /\ UNCHANGED <<_TRANSCRIPTOR, heap, mps_available, fs, nreq, nmigrate, mv>>

\* get_transcriptor: `if _TRANSCRIPTOR is None`
GetTranscriptor(w) ==
    /\ req[w].pc = "get"
    /\ req' = [req EXCEPT ![w].pc =
                  IF _TRANSCRIPTOR = NoObj THEN "construct" ELSE "return_tr"]
    /\ UNCHANGED <<_TRANSCRIPTOR, heap, mps_available, fs, dirs, nreq, nmigrate, mv>>

\* The `if _TRANSCRIPTOR is None` block: tr = PianoTranscription(...), which
\* may raise; the device; the migration when the device is not the CPU; and
\* `_TRANSCRIPTOR = tr` on every branch.  All of it is local to the thread
\* up to that assignment.
Build(w) ==
    /\ req[w].pc = "construct"
    /\ \E ok \in BOOLEAN :
        IF ~ok
        THEN /\ req' = [req EXCEPT ![w] = Raised(@, "construct", "PianoTranscription")]
             /\ UNCHANGED <<_TRANSCRIPTOR, heap, nmigrate>>
        ELSE
        LET tr == Len(heap) + 1
            device == TargetDevice(mps_available)
        IN  IF device # "cpu"
            THEN \E c \in MigrationChoices :
                   LET m == MigrateTry(NewTranscriptor, device, c)
                   IN  /\ heap' = Append(heap, m.obj)
                       /\ req' = [req EXCEPT ![w].pc = "return_tr",
                                             ![w].tr = tr, ![w].built = tr,
                                             ![w].outcome = m.outcome]
                       /\ nmigrate' = nmigrate + 1
                       /\ _TRANSCRIPTOR' = tr
            ELSE /\ heap' = Append(heap, NewTranscriptor)
                 /\ req' = [req EXCEPT ![w].pc = "return_tr",
                                       ![w].tr = tr, ![w].built = tr,
                                       ![w].outcome = "cpu"]
                 /\ _TRANSCRIPTOR' = tr
                 /\ UNCHANGED nmigrate
    /\ UNCHANGED <<mps_available, fs, dirs, nreq, mv>>

\* return _TRANSCRIPTOR
ReturnTranscriptor(w) ==
    /\ req[w].pc = "return_tr"
    /\ req' = [req EXCEPT ![w].pc = "transcribe",
                          ![w].transcriptor = _TRANSCRIPTOR]
    /\ UNCHANGED <<_TRANSCRIPTOR, heap, mps_available, fs, dirs, nreq, nmigrate, mv>>

\* transcriptor.transcribe(audio, out_path); return out_path.  The locals of
\* get_transcriptor are gone by now.
Transcribe(w) ==
    /\ req[w].pc = "transcribe"
    /\ \E ok \in BOOLEAN :
        IF ok
        THEN /\ fs' = WriteFile(fs, req[w].out_path, MidiFile(req[w].audio))
             /\ req' = [req EXCEPT ![w] =
                   LET r == [@ EXCEPT !.wrote = @ \cup {req[w].out_path},
                                      !.midi_path = req[w].out_path,
                                      !.tr = NoObj, !.built = NoObj,
                                      !.outcome = "none",
                                      !.transcriptor = NoObj]
                   IN  IF r.fn = "file"
                       THEN [r EXCEPT !.pc = "done",
                                      !.ret = [NoRet EXCEPT !.kind = "returned",
                                                            !.midi_path = r.out_path]]
                       ELSE [r EXCEPT !.pc = "convert"]]
        ELSE /\ fs' = fs
             /\ req' = [req EXCEPT ![w] =
                   Raised([@ EXCEPT !.tr = NoObj, !.built = NoObj,
                                    !.outcome = "none", !.transcriptor = NoObj],
                          "transcribe", "transcribe")]
    /\ UNCHANGED <<_TRANSCRIPTOR, heap, mps_available, dirs, nreq, nmigrate, mv>>

\* midi_to_musicxml_str called outside the try: its RuntimeError escapes.
Convert_Uncaught(w) ==
    /\ req[w].pc = "convert"
    /\ \E ok \in BOOLEAN :
        req' = [req EXCEPT ![w] =
            IF ok THEN [@ EXCEPT !.pc = "save",
                                 !.xml_text = MusicXml(fs[req[w].midi_path])]
            ELSE Raised(@, "convert", "music21 conversion failed")]
    /\ UNCHANGED <<_TRANSCRIPTOR, heap, mps_available, fs, dirs, nreq, nmigrate, mv>>

\* try: xml_text = midi_to_musicxml_str(midi_path), which reads the MIDI file
\* and raises RuntimeError when music21 fails; the except branch catches it.
Convert(w) ==
    /\ req[w].pc = "convert"
    /\ \E ok \in BOOLEAN :
        req' = [req EXCEPT ![w] =
            IF ok THEN [@ EXCEPT !.pc = "save",
                                 !.xml_text = MusicXml(fs[req[w].midi_path])]
            ELSE ScoreFailed(@, "convert")]
    /\ UNCHANGED <<_TRANSCRIPTOR, heap, mps_available, fs, dirs, nreq, nmigrate, mv>>

\* Still in the try: os.makedirs, musicxml_path, open(musicxml_path, "w") and
\* f.write(xml_text).  A failed write leaves the file cut short.
SaveSteps == {"xml_makedirs", "xml_open", "xml_write", "ok"}
SaveMusicXml(w) ==
    /\ req[w].pc = "save"
    /\ \E step \in SaveSteps :
        LET path == XmlPathOf(req[w].audio_path)
            opened == step \in {"xml_write", "ok"}
        IN  /\ dirs' = IF step = "xml_makedirs" THEN dirs ELSE dirs \cup {TestsDir}
            /\ fs' = IF opened
                     THEN WriteFile(fs, path, TextFile(req[w].xml_text, step = "ok"))
                     ELSE fs
            /\ req' = [req EXCEPT ![w] =
                  LET r == [@ EXCEPT !.wrote = IF opened THEN @ \cup {path} ELSE @,
                                     !.musicxml_path = path]
                  IN  IF step = "ok" THEN [r EXCEPT !.pc = "info"]
                      ELSE ScoreFailed(r, step)]
    /\ UNCHANGED <<_TRANSCRIPTOR, heap, mps_available, nreq, nmigrate, mv>>

\* The end of the try: converter.parse(midi_path) again, the score info and
\* build_osmd_html(xml_text); then return midi_path, html, musicxml_path.
InfoSteps == {"parse", "html", "ok"}
ScoreInfo(w) ==
    /\ req[w].pc = "info"
    /\ \E step \in InfoSteps :
        req' = [req EXCEPT ![w] =
            IF step = "ok"
            THEN [@ EXCEPT !.pc = "done",
                           !.ret = [kind |-> "returned", err |-> "",
                                    midi_path |-> req[w].midi_path,
                                    html |-> ScoreHtml(req[w].xml_text),
                                    musicxml_path |-> req[w].musicxml_path]]
            ELSE ScoreFailed(@, step)]
    /\ UNCHANGED <<_TRANSCRIPTOR, heap, mps_available, fs, dirs, nreq, nmigrate, mv>>

(***************************************************************************)
(* The specifications.                                                     *)
(***************************************************************************)
NoObject == [order |-> <<>>, val |-> <<>>]
NoEnv == [device |-> "mps", toFails |-> {}, setFails |-> {}]
MvIdle == [pc |-> "idle", before |-> NoObject, obj |-> NoObject,
           env |-> NoEnv, moved |-> NoDiag]

\* The server after import: nothing cached, nothing written, no request.
Init ==
    /\ _TRANSCRIPTOR = NoObj
    /\ heap = <<>>
    /\ mps_available \in BOOLEAN
    /\ fs = <<>>
    /\ dirs = {}
    /\ req = [w \in Workers |-> IdleReq]
    /\ nreq = 0
    /\ nmigrate = 0
    /\ mv = MvIdle

\* One step of one worker thread.
Step(w) ==
    \/ Prepare(w)
    \/ GetTranscriptor(w)
    \/ Build(w)
    \/ ReturnTranscriptor(w)
    \/ Transcribe(w)
    \/ Convert(w)
    \/ SaveMusicXml(w)
    \/ ScoreInfo(w)

\* Requests of any worker thread, in any interleaving.
Next ==
    \E w \in Workers :
        \/ \E rq \in AudioInputs : Call(w, rq[1], rq[2])
        \/ Step(w)

Spec == Init /\ [][Next]_vars

(***************************************************************************)
(* SpecPath: one request on a fresh server, for every path of at most      *)
(* MaxPathLen characters and either handler.                               *)
(***************************************************************************)
NextPath ==
    \/ \E fn \in Handlers, p \in BoundedPaths \cup {None} :
          nreq = 0 /\ Call("w1", fn, p)
    \/ Step("w1")

SpecPath == Init /\ [][NextPath]_vars

(***************************************************************************)
(* SpecMove: one call of _move_object_to_device(obj, "mps") on every       *)
(* object of at most MaxAttrs attributes, each a tensor, a module, another *)
(* value, or a list or dict of at most MaxElems of these, all on the CPU.  *)
(***************************************************************************)
\* The attribute names an object may have, in dir() order.
AttrNames == <<<<"__cache">>, <<"buf">>, <<"w">>>>
ElemValues == {Tensor("cpu"), Module("cpu"), Other}
ElemSeqs == UNION {[1..n -> ElemValues] : n \in 0..MaxElems}
AttrValues ==
    ElemValues \cup {ListOf(es) : es \in ElemSeqs} \cup {DictOf(es) : es \in ElemSeqs}

\* The object with the attributes of AttrNames at the positions in `which`.
ObjectWith(which, val) ==
    [order |-> SelectSeq(AttrNames, LAMBDA n : n \in {AttrNames[i] : i \in which}),
     val |-> val]
\* The objects of at most n attributes.
MoveObjects(n) ==
    UNION {{ObjectWith(which, val) :
               val \in [{AttrNames[i] : i \in which} -> AttrValues]} :
           which \in {S \in SUBSET (1..Len(AttrNames)) : Cardinality(S) <= n}}

\* Every name try_move may be called with for this object.
MoveNames(obj) ==
    DOMAIN obj.val \cup
    UNION {{ElemName(n, obj.val[n].kind, i) : i \in 1..Len(obj.val[n].elems)} :
           n \in DOMAIN obj.val}

InitMove ==
    /\ _TRANSCRIPTOR = NoObj
    /\ heap = <<>>
    /\ mps_available = TRUE
    /\ fs = <<>>
    /\ dirs = {}
    /\ req = [w \in Workers |-> IdleReq]
    /\ nreq = 0
    /\ nmigrate = 0
    /\ mv \in {[MvIdle EXCEPT !.pc = "start", !.obj = o, !.before = o] :
               o \in MoveObjects(MaxAttrs)}

\* moved = _move_object_to_device(obj, device), with at most one name whose
\* .to raises and at most one whose setattr raises.
MoveCall ==
    /\ mv.pc = "start"
    /\ \E toFails \in {{}} \cup {{n} : n \in MoveNames(mv.obj)},
          setFails \in {{}} \cup {{n} : n \in MoveNames(mv.obj)} :
        LET env == [device |-> "mps", toFails |-> toFails, setFails |-> setFails]
            res == MoveObjectToDevice(mv.obj, env)
        IN  mv' = [pc |-> "done", before |-> mv.obj, obj |-> res.obj,
                   env |-> env, moved |-> res.moved]
    /\ UNCHANGED <<_TRANSCRIPTOR, heap, mps_available, fs, dirs, req, nreq, nmigrate>>

NextMove == MoveCall

SpecMove == InitMove /\ [][NextMove]_vars

(***************************************************************************)
(* The claims.                                                             *)
(***************************************************************************)
Done(w) == req[w].pc = "done"
Returned(w) == Done(w) /\ req[w].ret.kind = "returned"
RaisedErr(w) == Done(w) /\ req[w].ret.kind = "raised"
\* get_transcriptor has just returned to worker w.
GotTranscriptor(w) == req[w].pc = "transcribe"

\* The steps of the try block of transcribe_and_show_score, and those of
\* transcribe_file after its guard.
ConversionSteps == {"convert", "xml_makedirs", "xml_open", "xml_write", "parse", "html"}
TranscribeFileSteps == {"load_audio", "makedirs", "construct", "transcribe"}

\* C1: once transcribe_file has returned a MIDI path, a failure of any later
\* step of the notation conversion is not raised: the request returns that
\* same MIDI path, no MusicXML path and the "Score conversion failed" fragment.
C1_ConversionFailureReturns ==
    \A w \in Workers :
        (Done(w) /\ req[w].failed_at \in ConversionSteps) =>
            /\ req[w].ret.kind = "returned"
            /\ req[w].midi_path # None
            /\ req[w].ret.midi_path = req[w].midi_path
            /\ req[w].ret.musicxml_path = None
            /\ req[w].ret.html.kind = "failed"
            /\ req[w].ret.html.msg = "Score conversion failed"

\* C1's case: the second converter.parse failed after the .musicxml was saved.
C1_Witness ==
    \E w \in Workers :
        /\ Done(w) /\ req[w].failed_at = "parse"
        /\ XmlPathOf(req[w].audio_path) \in req[w].wrote
        /\ req[w].ret.musicxml_path = None

\* C2 as stated: a request that ends in an error ends in "No file provided".
C2_OnlyMissingInputRaises ==
    \A w \in Workers : RaisedErr(w) => req[w].ret.err = "No file provided"

\* C2 amended: a request raises exactly when its input is missing (then with
\* "No file provided") or a step of transcribe_file fails; a failure of the
\* MusicXML conversion returns a result.
C2_RaisesOnlyBeforeMidi ==
    \A w \in Workers :
        Done(w) =>
            /\ req[w].ret.kind \in {"raised", "returned"}
            /\ req[w].ret.kind = "raised"
                 <=> req[w].failed_at \in {"guard"} \cup TranscribeFileSteps
            /\ req[w].failed_at = "guard" <=> req[w].audio_path \in {None, <<>>}
            /\ req[w].failed_at = "guard" => req[w].ret.err = "No file provided"

\* C2's case: load_audio failed on a file that was provided, and one
\* request's conversion failed.
C2_Witness ==
    \E w1, w2 \in Workers :
        /\ RaisedErr(w1) /\ req[w1].failed_at = "load_audio"
        /\ req[w1].audio_path \notin {None, <<>>}
        /\ Returned(w2) /\ req[w2].failed_at = "convert"

\* C3: a request of either handler with no audio_path ends at once in
\* "No file provided": in that step no audio is loaded, nothing is built,
\* written or created, and _TRANSCRIPTOR stays as it was.
C3_MissingInputRaisesFirst ==
    [][\A w \in Workers :
          (req'[w] # req[w] /\ req'[w].audio_path \in {None, <<>>}) =>
              /\ req[w].pc \in {"idle", "done"}
              /\ req'[w].pc = "done"
              /\ req'[w].ret.kind = "raised"
              /\ req'[w].ret.err = "No file provided"
              /\ req'[w].audio = NoText
              /\ req'[w].wrote = {}
              /\ req'[w].built = NoObj
              /\ UNCHANGED <<_TRANSCRIPTOR, heap, fs, dirs, nmigrate>>]_vars

\* C3's case: transcribe_file was called with an empty path while a
\* transcriptor was cached, and raised.
C3_Witness ==
    \E w \in Workers :
        /\ RaisedErr(w) /\ req[w].fn = "file" /\ req[w].audio_path = <<>>
        /\ req[w].ret.err = "No file provided"
        /\ _TRANSCRIPTOR # NoObj

\* b is the input's base name: what follows the last "/" of p, without its
\* extension (from the last "." on, when a character other than "." comes
\* before that dot).
IsBaseName(b, p) ==
    \E i \in 0..Len(p) :
        /\ i = 0 \/ p[i] = "/"
        /\ \A j \in (i + 1)..Len(p) : p[j] # "/"
        /\ LET name == SubSeq(p, i + 1, Len(p))
           IN  \E k \in 0..Len(name) :
                 LET ext == SubSeq(name, k + 1, Len(name))
                 IN  /\ b = SubSeq(name, 1, k)
                     /\ \/ /\ ext = <<>>
                           /\ ~\E j \in 1..Len(name) :
                                 name[j] = "." /\ \E m \in 1..(j - 1) : name[m] # "."
                        \/ /\ ext # <<>> /\ ext[1] = "."
                           /\ \A j \in 2..Len(ext) : ext[j] # "."
                           /\ \E m \in 1..k : b[m] # "."

\* C4: a request that returns, returns <tests dir>/<base>.mid, a file it has
\* written, and as MusicXML path None or <tests dir>/<base>.musicxml, with
\* the same <base>: the input's base name without its extension.
C4_ArtifactPaths ==
    \A w \in Workers :
        Returned(w) =>
            \E i \in 1..(Len(req[w].audio_path) + 1), j \in 0..Len(req[w].audio_path) :
                LET b == SubSeq(req[w].audio_path, i, j)
                    out == <<"/", "repo", "/", "tests", "/">> \o b
                IN  /\ IsBaseName(b, req[w].audio_path)
                    /\ req[w].ret.midi_path = out \o <<".", "mid">>
                    /\ req[w].ret.musicxml_path \in {None, out \o <<".", "musicxml">>}
                    /\ req[w].ret.midi_path \in req[w].wrote
                    /\ req[w].ret.midi_path \in DOMAIN fs
                    /\ fs[req[w].ret.midi_path].kind = "midi"
                    /\ req[w].ret.musicxml_path # None =>
                          /\ req[w].ret.musicxml_path \in DOMAIN fs
                          /\ fs[req[w].ret.musicxml_path].kind = "musicxml"

\* C4's case: an upload in a directory, with an extension, came back with
\* both artifacts.
C4_Witness ==
    \E w \in Workers :
        /\ Returned(w) /\ req[w].audio_path = <<"b", "/", "a", ".">>
        /\ req[w].ret.midi_path = <<"/", "repo", "/", "tests", "/", "a", ".", "mid">>
        /\ req[w].ret.musicxml_path # None

\* C5: once this call has built PianoTranscription, get_transcriptor returns
\* that object, whatever the migration did, and _TRANSCRIPTOR is set.
C5_ReturnsBuiltObject ==
    \A w \in Workers :
        (GotTranscriptor(w) /\ req[w].built # NoObj) =>
            /\ req[w].transcriptor = req[w].built
            /\ _TRANSCRIPTOR # NoObj

\* C6: when the parameters could not be verified on the accelerator, the
\* transcriptor this call cached is a CPU transcriptor: its device attribute
\* names the CPU, where its model parameters are.
C6_FallbackIsCpu ==
    \A w \in Workers :
        (req[w].outcome = "fallback" /\ req[w].built # NoObj) =>
            LET tr == heap[req[w].built]
            IN  /\ tr.val[<<"device">>].dev = "cpu"
                /\ tr.val[<<"model">>].dev = tr.val[<<"device">>].dev

\* C7: after _move_object_to_device, with no call raising, every tensor in a
\* list or dict attribute (one dir() walks) has been replaced in its
\* container by its copy on the device, and obj has the attributes it had.
C7_ContainersMoved ==
    (mv.pc = "done" /\ mv.env.toFails = {} /\ mv.env.setFails = {}) =>
        /\ \A n \in DOMAIN mv.before.val :
              (~Dunder(n) /\ mv.before.val[n].kind \in {"list", "dict"}) =>
                  \A i \in 1..Len(mv.before.val[n].elems) :
                      mv.before.val[n].elems[i].kind = "tensor" =>
                          mv.obj.val[n].elems[i] = Tensor(mv.env.device)
        /\ DOMAIN mv.obj.val = DOMAIN mv.before.val

\* C8: get_transcriptor is a singleton in every interleaving:
\* PianoTranscription is built at most once, the migration attempted at most
\* once, all calls return the same object, and _TRANSCRIPTOR stays the
\* object a call returned.
C8_Singleton ==
    /\ Len(heap) <= 1
    /\ nmigrate <= 1
    /\ \A w1, w2 \in Workers :
          (GotTranscriptor(w1) /\ GotTranscriptor(w2)) =>
              req[w1].transcriptor = req[w2].transcriptor
    /\ \A w \in Workers : GotTranscriptor(w) => req[w].transcriptor = _TRANSCRIPTOR

\* C9: the returned MusicXML path tells what is on disk: with None, this
\* request has written no <base>.musicxml; otherwise that file holds, whole,
\* the MusicXML text embedded in the returned HTML.
C9_PathReflectsDisk ==
    \A w \in Workers :
        (Returned(w) /\ req[w].fn = "score") =>
            IF req[w].ret.musicxml_path = None
            THEN XmlPathOf(req[w].audio_path) \notin req[w].wrote
            ELSE /\ req[w].ret.musicxml_path \in DOMAIN fs
                 /\ fs[req[w].ret.musicxml_path] =
                        TextFile(req[w].ret.html.xml_js.of, TRUE)

\* The artifact paths a request returned.
ReturnedPaths(w) == {req[w].ret.midi_path, req[w].ret.musicxml_path} \ {None}

====
